---- MODULE Spec2Model ----
(***************************************************************************)
(* The interactive `docker run` parameter editor (runTUIModel, runTUI) of  *)
(* the container package, as a state machine.  Go strings are sequences of *)
(* one-character strings; a nil slice is the empty sequence (strings.Split *)
(* never returns an empty slice, so the two cannot be confused).           *)
(***************************************************************************)
EXTENDS Integers, Sequences, FiniteSets, TLC

\* ------------------------------------------------------------------ bounds
\* characters the user types into edit buffers during one session
MaxTyped == 2

\* ----------------------------------------------------------- Go strings
\* strings.Join(parts, sep)
RECURSIVE Join(_, _)
Join(parts, sep) ==
    IF Len(parts) = 0 THEN <<>>
    ELSE IF Len(parts) = 1 THEN parts[1]
    ELSE parts[1] \o sep \o Join(Tail(parts), sep)

\* index of the first occurrence of the one-byte separator in s, 0 when absent
RECURSIVE IndexOf(_, _, _)
IndexOf(s, sep, i) ==
    IF i > Len(s) THEN 0
    ELSE IF <<s[i]>> = sep THEN i
    ELSE IndexOf(s, sep, i + 1)

\* strings.Split(s, sep) for a one-byte separator: always at least one part
RECURSIVE Split(_, _)
Split(s, sep) ==
    LET i == IndexOf(s, sep, 1) IN
    IF i = 0 THEN <<s>>
    ELSE <<SubSeq(s, 1, i - 1)>> \o Split(SubSeq(s, i + 1, Len(s)), sep)

\* ------------------------------------------------------- parameter types
NoSplit == <<>>

volumeParam == [name |-> "--volume", splitOn |-> <<":">>, editableIndex |-> 0]

nameParam == [name |-> "--name", splitOn |-> NoSplit, editableIndex |-> 0]

entrypointParam == [name |-> "--entrypoint", splitOn |-> NoSplit, editableIndex |-> 0]

envVarParam == [name |-> "--env", splitOn |-> <<"=">>, editableIndex |-> 1]

portParam == [name |-> "-p", splitOn |-> <<":">>, editableIndex |-> 0]

interactiveFlag == "--interactive"

ttyFlag == "--tty"

detachFlag == "--detach"

\* ---------------------------------------------------------------- catalog
S_alpine_test == <<"a","l","p","i","n","e","-","t","e","s","t">>

S_evenCoolerName == <<"e","v","e","n","C","o","o","l","e","r","N","a","m","e">>

S_8080_80 == <<"8","0","8","0",":","8","0">>

S_bin_ash == <<"/","b","i","n","/","a","s","h">>

S_postgresDB == <<"p","o","s","t","g","r","e","s","D","B">>

S_5432_5432 == <<"5","4","3","2",":","5","4","3","2">>

S_pgdata == <<"p","o","s","t","g","r","e","s","-","d","a","t","a",":","/","s","o","m","e","/",
              "o","t","h","e","r","/","c","o","n","t","a","i","n","e","r","/","d","i","r">>

S_yet_another == <<"/","y","e","t","/","a","n","o","t","h","e","r","/","l","o","c","a","l","/",
                   "d","i","r",":","/","y","e","t","/","a","n","o","t","h","e","r","/",
                   "c","o","n","t","a","i","n","e","r","/","d","i","r">>

S_pg_user == <<"P","O","S","T","G","R","E","S","_","U","S","E","R","=",
               "t","e","s","t","-","u","s","e","r">>

S_pg_password == <<"P","O","S","T","G","R","E","S","_","P","A","S","S","W","O","R","D","=",
                   "t","e","s","t","-","p","a","s","s","w","o","r","d">>

S_pg_db == <<"P","O","S","T","G","R","E","S","_","D","B","=","t","e","s","t","-","d","b">>

\* image names the caller may pass in copts.Image; "nginx" has no catalog entry
Images == {"alpine", "postgres", "nginx"}

\* getParamOptions: the value field of every entry is the zero string
getParamOptions(imageName) ==
    CASE imageName = "alpine" ->
           << [paramType |-> nameParam, value |-> <<>>,
               valueOptions |-> <<S_alpine_test, S_evenCoolerName>>],
              [paramType |-> portParam, value |-> <<>>,
               valueOptions |-> <<S_8080_80>>],
              [paramType |-> entrypointParam, value |-> <<>>,
               valueOptions |-> <<S_bin_ash>>] >>
      [] imageName = "postgres" ->
           << [paramType |-> nameParam, value |-> <<>>,
               valueOptions |-> <<S_postgresDB, S_evenCoolerName>>],
              [paramType |-> portParam, value |-> <<>>,
               valueOptions |-> <<S_5432_5432>>],
              [paramType |-> volumeParam, value |-> <<>>,
               valueOptions |-> <<S_pgdata, S_yet_another>>],
              [paramType |-> envVarParam, value |-> <<>>,
               valueOptions |-> <<S_pg_user>>],
              [paramType |-> envVarParam, value |-> <<>>,
               valueOptions |-> <<S_pg_password>>],
              [paramType |-> envVarParam, value |-> <<>>,
               valueOptions |-> <<S_pg_db>>] >>
      [] OTHER -> <<>>

getFlags(imageName) ==
    CASE imageName = "alpine" -> <<interactiveFlag, ttyFlag>>
      [] imageName = "postgres" -> <<detachFlag>>
      [] OTHER -> <<>>

\* faulty variant: the catalog's entries are taken as they are, values unset
SeedValuesNone(runParams) == runParams

\* the loop of initialModel that seeds every empty value with valueOptions[0]
SeedValues(runParams) ==
    [i \in 1..Len(runParams) |->
        IF runParams[i].value = <<>> /\ Len(runParams[i].valueOptions) > 0
        THEN [runParams[i] EXCEPT !.value = runParams[i].valueOptions[1]]
        ELSE runParams[i]]

NoErr == "nil"

NilParts == <<>>

initialModel(image) ==
    [imageName         |-> image,
     runParams         |-> SeedValues(getParamOptions(image)),
     runFlags          |-> getFlags(image),
     selectedParameter |-> 0,
     editingParameter  |-> FALSE,
     parameterParts    |-> NilParts,
     editValue         |-> <<>>,
     cursorPosition    |-> 0,
     err               |-> NoErr]

\* ----------------------------------------------------------------- events
\* characters the user types: one alphanumeric, one separator
Chars == {"a", ":"}

NamedKeys == {"enter", "tab", "esc", "backspace", "left", "right",
              "up", "down", "shift+tab", "ctrl+c"}

Keys == NamedKeys \cup Chars

\* len(msg.String())
KeyLen(key) ==
    CASE key \in Chars -> 1
      [] key = "up" -> 2
      [] key \in {"tab", "esc"} -> 3
      [] key \in {"left", "down"} -> 4
      [] key \in {"enter", "right"} -> 5
      [] key = "ctrl+c" -> 6
      [] key \in {"backspace", "shift+tab"} -> 9

\* the byte ranges 'a'..'z', 'A'..'Z', '0'..'9' of the begin-edit test
IsAlnum(key) == key \in {"a"}

\* what one call of Update gives back: the new model, the command, and
\* whether the call panicked (an index out of range) instead of returning
Ret(model, cmd) == [model |-> model, cmd |-> cmd, panicked |-> FALSE]

Panic(model) == [model |-> model, cmd |-> "nil", panicked |-> TRUE]

InRange(i, n) == 0 <= i /\ i < n

\* case errMsg: store the error and quit
UpdateErr(m) == Ret([m EXCEPT !.err = "errMsg"], "quit")

\* faulty variant: the selection stops at the last parameter instead of wrapping
NextIndexClamped(sel, n) == IF sel < n - 1 THEN sel + 1 ELSE sel

\* selectedParameter after "move to the next parameter", wrapping to the first
NextIndex(sel, n) == IF sel < n - 1 THEN sel + 1 ELSE 0

\* faulty variant: the selection is decremented without wrapping
PrevIndexNoWrap(sel, n) == sel - 1

\* faulty variant: the selection stops at the first parameter instead of wrapping
PrevIndexClamped(sel, n) == IF sel > 0 THEN sel - 1 ELSE sel

\* selectedParameter after "move to the previous parameter", wrapping to the last
PrevIndex(sel, n) == IF sel > 0 THEN sel - 1 ELSE n - 1

\* faulty variant: the buffer always replaces the first part, whatever the
\* type's editableIndex
CommittedValueFirstPart(m) ==
    LET cur    == m.runParams[m.selectedParameter + 1]
        parts  == [m.parameterParts EXCEPT ![1] = m.editValue]
        joined == IF cur.paramType.splitOn # NoSplit
                  THEN Join(parts, cur.paramType.splitOn)
                  ELSE m.editValue
    IN  IF joined = <<>> /\ Len(cur.valueOptions) > 0
        THEN cur.valueOptions[1]
        ELSE joined

\* faulty variant: an empty result is stored as it is, without the fallback
CommittedValueNoFallback(m) ==
    LET cur   == m.runParams[m.selectedParameter + 1]
        k     == cur.paramType.editableIndex
        parts == [m.parameterParts EXCEPT ![k + 1] = m.editValue]
    IN  IF cur.paramType.splitOn # NoSplit
        THEN Join(parts, cur.paramType.splitOn)
        ELSE m.editValue

\* the value the commit stores in the selected parameter
CommittedValue(m) ==
    LET cur    == m.runParams[m.selectedParameter + 1]
        k      == cur.paramType.editableIndex
        parts  == [m.parameterParts EXCEPT ![k + 1] = m.editValue]
        joined == IF cur.paramType.splitOn # NoSplit
                  THEN Join(parts, cur.paramType.splitOn)
                  ELSE m.editValue
    IN  IF joined = <<>> /\ Len(cur.valueOptions) > 0
        THEN cur.valueOptions[1]
        ELSE joined

\* Editing, "enter" or "tab": commit the buffer, leave Editing, and on tab advance
EditingConfirm(m, key) ==
    IF ~InRange(m.selectedParameter, Len(m.runParams)) THEN Panic(m)
    ELSE LET cur == m.runParams[m.selectedParameter + 1] IN
    IF cur.paramType.splitOn # NoSplit
       /\ ~InRange(cur.paramType.editableIndex, Len(m.parameterParts))
    THEN Panic(m)
    ELSE Ret([m EXCEPT
                !.runParams[m.selectedParameter + 1].value = CommittedValue(m),
                !.editingParameter = FALSE,
                !.editValue = <<>>,
                !.parameterParts = NilParts,
                !.cursorPosition = 0,
                !.selectedParameter =
                    IF key = "tab"
                    THEN NextIndex(m.selectedParameter, Len(m.runParams))
                    ELSE m.selectedParameter],
             "nil")

\* faulty variant: esc stores the buffer in the selected parameter
EditingEscStores(m) ==
    [model |-> [m EXCEPT !.runParams[m.selectedParameter + 1].value = m.editValue,
                         !.editingParameter = FALSE,
                         !.editValue = <<>>,
                         !.cursorPosition = 0],
     cmd |-> "nil", panicked |-> FALSE]

\* faulty variant: esc is a quit key in Editing as it is in Browsing
EditingEscQuits(m) == [model |-> m, cmd |-> "quit", panicked |-> FALSE]

\* Editing, "esc": leave Editing without touching any value
EditingEsc(m) ==
    Ret([m EXCEPT !.editingParameter = FALSE,
                  !.editValue = <<>>,
                  !.cursorPosition = 0],
        "nil")

\* Editing, "backspace"
EditingBackspace(m) ==
    IF m.cursorPosition > 0
    THEN Ret([m EXCEPT
                !.editValue = SubSeq(m.editValue, 1, m.cursorPosition - 1)
                              \o SubSeq(m.editValue, m.cursorPosition + 1, Len(m.editValue)),
                !.cursorPosition = m.cursorPosition - 1],
             "nil")
    ELSE Ret(m, "nil")

\* Editing, "left"
EditingLeft(m) ==
    IF m.cursorPosition > 0
    THEN Ret([m EXCEPT !.cursorPosition = m.cursorPosition - 1], "nil")
    ELSE Ret(m, "nil")

\* faulty variant: right moves the cursor without looking at the buffer's end
EditingRightUnclamped(m) ==
    [model |-> [m EXCEPT !.cursorPosition = m.cursorPosition + 1],
     cmd |-> "nil", panicked |-> FALSE]

\* Editing, "right"
EditingRight(m) ==
    IF m.cursorPosition < Len(m.editValue)
    THEN Ret([m EXCEPT !.cursorPosition = m.cursorPosition + 1], "nil")
    ELSE Ret(m, "nil")

\* faulty variant: a one-byte key is appended at the buffer's end, wherever the
\* cursor is
EditingInsertAppend(m, key) ==
    IF KeyLen(key) = 1
    THEN [model |-> [m EXCEPT !.editValue = m.editValue \o <<key>>,
                              !.cursorPosition = m.cursorPosition + 1],
          cmd |-> "nil", panicked |-> FALSE]
    ELSE [model |-> m, cmd |-> "nil", panicked |-> FALSE]

\* Editing, any other key: a one-byte key is inserted at the cursor
EditingInsert(m, key) ==
    IF KeyLen(key) = 1
    THEN Ret([m EXCEPT
                !.editValue = SubSeq(m.editValue, 1, m.cursorPosition)
                              \o <<key>>
                              \o SubSeq(m.editValue, m.cursorPosition + 1, Len(m.editValue)),
                !.cursorPosition = m.cursorPosition + 1],
             "nil")
    ELSE Ret(m, "nil")

\* Browsing, "left", "up", "shift+tab"
BrowsingPrev(m) ==
    Ret([m EXCEPT !.selectedParameter = PrevIndex(m.selectedParameter, Len(m.runParams))],
        "nil")

\* Browsing, "right", "down", "tab"
BrowsingNext(m) ==
    Ret([m EXCEPT !.selectedParameter = NextIndex(m.selectedParameter, Len(m.runParams))],
        "nil")

\* Browsing, any other key: an alphanumeric key begins an edit
BeginEdit(m, key) ==
    IF KeyLen(key) = 1 /\ IsAlnum(key)
    THEN IF ~InRange(m.selectedParameter, Len(m.runParams)) THEN Panic(m)
         ELSE LET cur == m.runParams[m.selectedParameter + 1] IN
         IF cur.value = <<>> /\ Len(cur.valueOptions) = 0 THEN Panic(m)
         ELSE LET seeded == IF cur.value = <<>> THEN cur.valueOptions[1] ELSE cur.value
                  buf    == m.editValue \o <<key>>
              IN Ret([m EXCEPT
                        !.editingParameter = TRUE,
                        !.parameterParts =
                            IF cur.paramType.splitOn # NoSplit
                            THEN Split(seeded, cur.paramType.splitOn)
                            ELSE m.parameterParts,
                        !.editValue = buf,
                        !.cursorPosition = Len(buf)],
                     "nil")
    ELSE Ret(m, "nil")

\* case tea.KeyMsg
UpdateKey(m, key) ==
    IF m.editingParameter
    THEN CASE key \in {"enter", "tab"} -> EditingConfirm(m, key)
           [] key = "esc" -> EditingEsc(m)
           [] key = "backspace" -> EditingBackspace(m)
           [] key = "left" -> EditingLeft(m)
           [] key = "right" -> EditingRight(m)
           [] OTHER -> EditingInsert(m, key)
    ELSE CASE key \in {"ctrl+c", "esc"} -> Ret(m, "quit")
           [] key = "enter" -> Ret(m, "quit")
           [] key \in {"left", "up", "shift+tab"} -> BrowsingPrev(m)
           [] key \in {"right", "down", "tab"} -> BrowsingNext(m)
           [] OTHER -> BeginEdit(m, key)

\* runTUIModel.Update; msg is "errMsg" or a key
Update(m, msg) == IF msg = "errMsg" THEN UpdateErr(m) ELSE UpdateKey(m, msg)

\* ------------------------------------------------------------------- View
\* faulty variant: every non-empty value counts as edited
isEditedNonEmpty(param) == param.value # <<>>

\* isEdited of runTUIModel.View
isEdited(param) == param.value # <<>> /\ param.value # param.valueOptions[1]

\* displayValue of runTUIModel.View
displayValue(param) ==
    IF param.value = <<>> /\ Len(param.valueOptions) > 0
    THEN param.valueOptions[1]
    ELSE param.value

\* which of the four renderings View gives parameter i (0-based) of model m
ParamTreatment(m, i) ==
    IF i = m.selectedParameter
    THEN IF m.editingParameter THEN "editing" ELSE "selected"
    ELSE IF isEdited(m.runParams[i + 1]) THEN "modified" ELSE "plain"

\* the byte 0x1b that opens a styling escape sequence
ESC == "ESC"

blueColor == <<ESC, "[", "9", "4", "m">>

yellowColor == <<ESC, "[", "3", "3", ";", "2", "m">>

resetColor == <<ESC, "[", "0", "m">>

grayColor == <<ESC, "[", "9", "0", "m">>

cursorColor == <<ESC, "[", "7", "m">>

\* the bytes of the fixed texts View prints
Bytes(text) ==
    CASE text = "docker run" -> <<"d","o","c","k","e","r"," ","r","u","n">>
      [] text = "--name" -> <<"-","-","n","a","m","e">>
      [] text = "--volume" -> <<"-","-","v","o","l","u","m","e">>
      [] text = "--entrypoint" -> <<"-","-","e","n","t","r","y","p","o","i","n","t">>
      [] text = "--env" -> <<"-","-","e","n","v">>
      [] text = "-p" -> <<"-","p">>
      [] text = "--interactive" -> <<"-","-","i","n","t","e","r","a","c","t","i","v","e">>
      [] text = "--tty" -> <<"-","-","t","t","y">>
      [] text = "--detach" -> <<"-","-","d","e","t","a","c","h">>
      [] text = "alpine" -> <<"a","l","p","i","n","e">>
      [] text = "postgres" -> <<"p","o","s","t","g","r","e","s">>
      [] text = "nginx" -> <<"n","g","i","n","x">>
      [] OTHER -> <<>>

\* the editing branch of View: the selected parameter with the cursor drawn
EditingString(m, param) ==
    LET k      == param.paramType.editableIndex
        sep    == param.paramType.splitOn
        parts  == m.parameterParts
        atEnd  == ~(m.cursorPosition < Len(m.editValue))
        beforeCursor == SubSeq(m.editValue, 1, m.cursorPosition)
        cursorChar   == IF atEnd THEN <<" ">> ELSE <<m.editValue[m.cursorPosition + 1]>>
        afterCursor  == IF atEnd
                        THEN SubSeq(m.editValue, m.cursorPosition + 1, Len(m.editValue))
                        ELSE SubSeq(m.editValue, m.cursorPosition + 2, Len(m.editValue))
        beforeEditedPart == IF parts # NilParts THEN Join(SubSeq(parts, 1, k), sep) ELSE <<>>
        afterEditedPart  == IF parts # NilParts /\ k + 1 < Len(parts)
                            THEN sep \o Join(SubSeq(parts, k + 2, Len(parts)), sep)
                            ELSE <<>>
    IN  Bytes(param.paramType.name) \o <<" ">> \o beforeEditedPart
        \o blueColor \o beforeCursor
        \o cursorColor \o cursorChar
        \o blueColor \o afterCursor \o resetColor
        \o grayColor \o afterEditedPart
        \o resetColor

\* paramStr of View for parameter i (0-based)
ParamString(m, i) ==
    LET param == m.runParams[i + 1]
        plain == Bytes(param.paramType.name) \o <<" ">> \o displayValue(param)
    IN  CASE ParamTreatment(m, i) = "editing" -> EditingString(m, param)
          [] ParamTreatment(m, i) = "selected" -> blueColor \o plain \o resetColor
          [] ParamTreatment(m, i) = "modified" -> yellowColor \o plain \o resetColor
          [] OTHER -> plain

\* commandParts of View
CommandParts(m) ==
    <<grayColor \o Bytes("docker run") \o resetColor>>
    \o [i \in 1..Len(m.runFlags) |-> grayColor \o Bytes(m.runFlags[i]) \o resetColor]
    \o [i \in 1..Len(m.runParams) |-> ParamString(m, i - 1)]
    \o <<grayColor \o Bytes(m.imageName) \o resetColor>>

\* the separator View joins with when the command is too long
ContinuationSeparator == grayColor \o <<" ", "\\", "\n">> \o resetColor \o <<" ", " ", " ", " ">>

\* the test View makes on the single-space-joined command: len(command) > 80
TooLong(command) == Len(command) > 80

\* the command View renders (the part before the legend), for a model without err
ViewCommand(m) ==
    LET command == Join(CommandParts(m), <<" ">>) IN
    IF TooLong(command)
    THEN Join(CommandParts(m), ContinuationSeparator)
    ELSE command

\* ------------------------------------------------------------- Committer
\* faulty variant: a published port is appended to the volume list
ApplyParamPortAsVolume(o, param) ==
    CASE param.paramType = nameParam ->
           [o EXCEPT !.ropts.name = param.value]
      [] param.paramType = volumeParam ->
           [o EXCEPT !.copts.volumes = Append(@, param.value)]
      [] param.paramType = entrypointParam ->
           [o EXCEPT !.copts.entrypoint = param.value]
      [] param.paramType = envVarParam ->
           [o EXCEPT !.copts.env = Append(@, param.value)]
      [] param.paramType = portParam ->
           [o EXCEPT !.copts.volumes = Append(@, param.value)]
      [] OTHER -> o

\* one iteration of the loop over finalRunTUIModel.runParams
ApplyParam(o, param) ==
    CASE param.paramType = nameParam ->
           [o EXCEPT !.ropts.name = param.value]
      [] param.paramType = volumeParam ->
           [o EXCEPT !.copts.volumes = Append(@, param.value)]
      [] param.paramType = entrypointParam ->
           [o EXCEPT !.copts.entrypoint = param.value]
      [] param.paramType = envVarParam ->
           [o EXCEPT !.copts.env = Append(@, param.value)]
      [] param.paramType = portParam ->
           [o EXCEPT !.copts.publish = Append(@, param.value)]
      [] OTHER -> o

\* flags.Set(name, "true") on the caller's flag set: the flag of that name is
\* marked as explicitly set
FlagSetSet(changed, name) == changed \cup {name}

\* one iteration of the loop over finalRunTUIModel.runFlags
ApplyFlag(o, flag) ==
    LET set == CASE flag = detachFlag -> [o EXCEPT !.ropts.detach = TRUE]
                 [] flag = interactiveFlag -> [o EXCEPT !.copts.stdin = TRUE]
                 [] flag = ttyFlag -> [o EXCEPT !.copts.tty = TRUE]
                 [] OTHER -> o
    IN [set EXCEPT !.flags = FlagSetSet(@, flag)]

RECURSIVE ApplyParams(_, _)
ApplyParams(o, params) ==
    IF params = <<>> THEN o
    ELSE ApplyParams(ApplyParam(o, Head(params)), Tail(params))

RECURSIVE ApplyFlags(_, _)
ApplyFlags(o, fl) ==
    IF fl = <<>> THEN o
    ELSE ApplyFlags(ApplyFlag(o, Head(fl)), Tail(fl))

\* faulty variant: the block runs whatever finalRunTUIModel.err is
CommitModelAlways(o, final) ==
    ApplyFlags(ApplyParams(o, final.runParams), final.runFlags)

\* the block guarded by finalRunTUIModel.err == nil
CommitModel(o, final) ==
    IF final.err = NoErr
    THEN ApplyFlags(ApplyParams(o, final.runParams), final.runFlags)
    ELSE o

\* the option structures the caller hands to runTUI
InitialOptions(image) ==
    [ropts |-> [name |-> <<>>, detach |-> FALSE],
     copts |-> [Image |-> image, volumes |-> <<>>, entrypoint |-> <<>>,
                env |-> <<>>, publish |-> <<>>, stdin |-> FALSE, tty |-> FALSE],
     flags |-> {}]

\* faulty variant: the program runs under ctx itself
WithCancel(parentCancelled) == parentCancelled

\* Done() of the context the program runs under: context.WithoutCancel(ctx)
WithoutCancel(parentCancelled) == FALSE

\* ------------------------------------------------------- telemetry errors
\* exit codes a statusError is made with
Codes == {-1, 0, 1, 2, 125, 126, 127}

Statuses == {"", "exited"}

\* a nil error interface
NilError == [type |-> "nil", Status |-> "", StatusCode |-> 0, isCanceled |-> FALSE]

\* the error values handed to the attribute functions.  type is the dynamic
\* type: a statusError value, an error wrapping a statusError or
\* context.Canceled (fmt.Errorf with %w), or a plain errors.New error;
\* isCanceled is errors.Is(err, context.Canceled), which a bare statusError
\* never satisfies as it has no Unwrap
Errors ==
    {NilError}
    \cup [type : {"statusError"}, Status : Statuses, StatusCode : Codes,
          isCanceled : {FALSE}]
    \cup [type : {"wrapError"}, Status : Statuses, StatusCode : Codes,
          isCanceled : BOOLEAN]
    \cup [type : {"errorString"}, Status : {""}, StatusCode : {0},
          isCanceled : BOOLEAN]

\* otelErrorType
otelErrorType(err) == IF err.isCanceled THEN "canceled" ELSE "generic"

\* faulty variant: a statusError's StatusCode is taken even when it is 0
attributesFromCommandErrorAnyCode(err) ==
    LET exitCode == IF err # NilError
                    THEN IF err.type = "statusError" THEN err.StatusCode ELSE 1
                    ELSE 0
        attrs    == IF err # NilError
                    THEN <<[key |-> "command.error.type", value |-> otelErrorType(err)]>>
                    ELSE <<>>
    IN  Append(attrs, [key |-> "command.status.code", value |-> exitCode])

\* attributesFromCommandError; err.(statusError) holds for the dynamic type
\* statusError only
attributesFromCommandError(err) ==
    LET exitCode == IF err # NilError
                    THEN IF err.type = "statusError" /\ err.StatusCode # 0
                         THEN err.StatusCode
                         ELSE 1
                    ELSE 0
        attrs    == IF err # NilError
                    THEN <<[key |-> "command.error.type", value |-> otelErrorType(err)]>>
                    ELSE <<>>
    IN  Append(attrs, [key |-> "command.status.code", value |-> exitCode])

\* attributesFromPluginError
attributesFromPluginError(err) ==
    LET exitCode == IF err # NilError
                    THEN IF err.type = "statusError" /\ err.StatusCode # 0
                         THEN err.StatusCode
                         ELSE 1
                    ELSE 0
        attrs    == IF err # NilError
                    THEN <<[key |-> "plugin.error.type", value |-> otelErrorType(err)]>>
                    ELSE <<>>
    IN  Append(attrs, [key |-> "plugin.status.code", value |-> exitCode])

\* ------------------------------------------------------------ the session
\* the zero runTUIModel: what runTUI is left with when tui.Run() gives no model
ZeroModel ==
    [imageName         |-> "",
     runParams         |-> <<>>,
     runFlags          |-> <<>>,
     selectedParameter |-> 0,
     editingParameter  |-> FALSE,
     parameterParts    |-> NilParts,
     editValue         |-> <<>>,
     cursorPosition    |-> 0,
     err               |-> NoErr]

VARIABLES
    m,              \* the runTUIModel the event loop holds
    pc,             \* runTUI: "loop" while tui.Run() runs, "done" after runTUI returned
    ctxCancelled,   \* the caller's ctx is cancelled
    opts,           \* the caller's ropts, copts and flags
    result,         \* the error runTUI returns
    committerRuns,  \* how many times the commit block ran
    typed,          \* characters typed so far
    last,           \* the last message handed to Update, and the mode it met
    telErr,         \* the error a command or plugin ended with
    telCall,        \* which attribute function was called with it, "none" before
    telAttrs        \* the attributes the call returned

sessionVars == <<m, pc, ctxCancelled, opts, result, committerRuns, typed, last>>

telVars == <<telErr, telCall, telAttrs>>

vars == <<m, pc, ctxCancelled, opts, result, committerRuns, typed, last,
          telErr, telCall, telAttrs>>

Init ==
    /\ \E image \in Images :
         /\ m = initialModel(image)
         /\ opts = InitialOptions(image)
    /\ pc = "loop"
    /\ ctxCancelled = FALSE
    /\ result = "none"
    /\ committerRuns = 0
    /\ typed = 0
    /\ last = [msg |-> "none", editing |-> FALSE]
    /\ telErr = NilError
    /\ telCall = "none"
    /\ telAttrs = <<>>

\* faulty variant: the model is written through to the caller's structures on
\* every message, not only when the loop has ended
DeliverWritesThrough(msg) ==
    LET r == Update(m, msg) IN
    /\ last' = [msg |-> msg, editing |-> m.editingParameter]
    /\ IF r.panicked
       THEN /\ pc' = "done"
            /\ result' = "panic"
            /\ m' = ZeroModel
            /\ UNCHANGED <<opts, committerRuns>>
       ELSE IF r.cmd = "quit"
       THEN /\ pc' = "done"
            /\ m' = r.model
            /\ opts' = CommitModel(opts, r.model)
            /\ committerRuns' = IF r.model.err = NoErr
                                THEN committerRuns + 1 ELSE committerRuns
            /\ result' = r.model.err
       ELSE /\ m' = r.model
            /\ opts' = CommitModel(opts, r.model)
            /\ UNCHANGED <<pc, committerRuns, result>>
    /\ UNCHANGED ctxCancelled

\* the event loop hands one message to Update.  A panic ends tui.Run() with an
\* error; tea.Quit ends the loop before another message is handled, tui.Run()
\* returns the final model and runTUI runs to its return statement
Deliver(msg) ==
    LET r == Update(m, msg) IN
    /\ last' = [msg |-> msg, editing |-> m.editingParameter]
    /\ IF r.panicked
       THEN /\ pc' = "done"
            /\ result' = "panic"
            /\ m' = ZeroModel
            /\ UNCHANGED <<opts, committerRuns>>
       ELSE IF r.cmd = "quit"
       THEN /\ pc' = "done"
            /\ m' = r.model
            /\ opts' = CommitModel(opts, r.model)
            /\ committerRuns' = IF r.model.err = NoErr
                                THEN committerRuns + 1 ELSE committerRuns
            /\ result' = r.model.err
       ELSE /\ m' = r.model
            /\ UNCHANGED <<pc, opts, committerRuns, result>>
    /\ UNCHANGED ctxCancelled

\* the key puts a character into the edit buffer
Types(key) == KeyLen(key) = 1 /\ (m.editingParameter \/ IsAlnum(key))

\* a key press reaches the loop
KeyEvent(key) ==
    /\ pc = "loop"
    /\ Types(key) => typed < MaxTyped
    /\ typed' = IF Types(key) THEN typed + 1 ELSE typed
    /\ Deliver(key)
    /\ UNCHANGED telVars

\* an errMsg reaches the loop
ErrEvent ==
    /\ pc = "loop"
    /\ UNCHANGED typed
    /\ Deliver("errMsg")
    /\ UNCHANGED telVars

\* tui.Run() returns an error: runTUI returns it at once, without the model
RunFails ==
    /\ pc = "loop"
    /\ \E killed \in {b \in BOOLEAN : b => WithoutCancel(ctxCancelled)} :
         result' = IF killed THEN "ErrProgramKilled" ELSE "ioError"
    /\ pc' = "done"
    /\ m' = ZeroModel
    /\ UNCHANGED <<ctxCancelled, opts, committerRuns, typed, last>>
    /\ UNCHANGED telVars

\* the caller cancels ctx while the session runs
CancelContext ==
    /\ pc = "loop"
    /\ ~ctxCancelled
    /\ ctxCancelled' = TRUE
    /\ UNCHANGED <<m, pc, opts, result, committerRuns, typed, last>>
    /\ UNCHANGED telVars

Next ==
    \/ \E key \in Keys : KeyEvent(key)
    \/ ErrEvent
    \/ RunFails
    \/ CancelContext

Spec == Init /\ [][Next]_vars

\* ------------------------------------------------- the attribute functions
\* a command or plugin ended with some error; no interactive session runs
InitTelemetry ==
    /\ telErr \in Errors
    /\ telCall = "none"
    /\ telAttrs = <<>>
    /\ m = ZeroModel
    /\ opts = InitialOptions("")
    /\ pc = "done"
    /\ ctxCancelled = FALSE
    /\ result = "none"
    /\ committerRuns = 0
    /\ typed = 0
    /\ last = [msg |-> "none", editing |-> FALSE]

\* the error goes through attributesFromCommandError
CallCommandError ==
    /\ telCall = "none"
    /\ telCall' = "command"
    /\ telAttrs' = attributesFromCommandError(telErr)
    /\ UNCHANGED telErr
    /\ UNCHANGED sessionVars

\* the error goes through attributesFromPluginError
CallPluginError ==
    /\ telCall = "none"
    /\ telCall' = "plugin"
    /\ telAttrs' = attributesFromPluginError(telErr)
    /\ UNCHANGED telErr
    /\ UNCHANGED sessionVars

NextTelemetry ==
    \/ CallCommandError
    \/ CallPluginError

SpecTelemetry == InitTelemetry /\ [][NextTelemetry]_vars

\* ------------------------------------------------------------ properties
Running == pc = "loop"

NumParams == Len(m.runParams)

Selected == m.runParams[m.selectedParameter + 1]

IsComposite(param) == param.paramType.splitOn # NoSplit

PrevKeys == {"left", "up", "shift+tab"}

NextKeys == {"right", "down", "tab"}

\* parts with the part at 0-based index k replaced by b
ReplacePart(parts, k, b) == [i \in 1..Len(parts) |-> IF i = k + 1 THEN b ELSE parts[i]]

\* C1: after every event the cursor lies within the edit buffer,
\* 0 <= cursorPosition <= len(editValue)
C1_CursorInBuffer ==
    /\ 0 <= m.cursorPosition
    /\ m.cursorPosition <= Len(m.editValue)

\* two characters typed, the cursor moved left, the first character deleted
C1_Witness ==
    /\ Running
    /\ m.editingParameter
    /\ last = [msg |-> "backspace", editing |-> TRUE]
    /\ m.cursorPosition = 0
    /\ Len(m.editValue) = 1

\* a one-parameter model holding the given value, for the worked examples
ExampleModel(ptype, value) ==
    [initialModel("example") EXCEPT
        !.runParams = <<[paramType |-> ptype, value |-> value, valueOptions |-> <<value>>]>>]

\* the value an edit session that ends with buffer b and Confirm leaves behind
ExampleEdit(ptype, value, b) ==
    LET entered == BeginEdit(ExampleModel(ptype, value), "a").model
        edited  == [entered EXCEPT !.editValue = b, !.cursorPosition = Len(b)]
    IN  EditingConfirm(edited, "enter").model.runParams[1].value

\* C2: confirming the edit of a composite parameter stores the value at edit
\* entry with the segment at the editable index replaced by the buffer, every
\* other segment as it was; "/a:/b" edited to "/c" gives "/c:/b" and "KEY=old"
\* edited to "new" gives "KEY=new"
C2_CompositeCommit ==
    /\ (Running /\ m.editingParameter /\ IsComposite(Selected)) =>
          LET sep == Selected.paramType.splitOn
              k   == Selected.paramType.editableIndex
              s   == Split(Selected.value, sep)
              r   == Update(m, "enter")
          IN  /\ ~r.panicked
              /\ k < Len(s)
              /\ r.model.runParams[m.selectedParameter + 1].value
                    = Join(ReplacePart(s, k, m.editValue), sep)
              /\ \A i \in 1..NumParams : i # m.selectedParameter + 1 =>
                    r.model.runParams[i] = m.runParams[i]
    /\ ExampleEdit(volumeParam, <<"/","a",":","/","b">>, <<"/","c">>)
          = <<"/","c",":","/","b">>
    /\ ExampleEdit(envVarParam, <<"K","E","Y","=","o","l","d">>, <<"n","e","w">>)
          = <<"K","E","Y","=","n","e","w">>

\* an --env parameter (editable index 1) was edited to "a" and confirmed
C2_Witness ==
    /\ Running
    /\ last = [msg |-> "enter", editing |-> TRUE]
    /\ \E i \in 1..NumParams :
          /\ m.runParams[i].paramType = envVarParam
          /\ i = m.selectedParameter + 1
          /\ m.runParams[i].value
                = Split(m.runParams[i].valueOptions[1], <<"=">>)[1] \o <<"=">> \o <<"a">>

\* C3: no key of an edit session other than Confirm changes a value or the
\* selection, and Cancel returns to Browsing with every value and the
\* selection as they were before the edit began
C3_CancelKeepsValues ==
    /\ (Running /\ ~m.editingParameter) =>
          \A c \in Chars :
             LET r == Update(m, c) IN
             ~r.panicked =>
                /\ r.model.runParams = m.runParams
                /\ r.model.selectedParameter = m.selectedParameter
    /\ (Running /\ m.editingParameter) =>
          /\ \A key \in Keys \ {"enter", "tab"} :
                LET r == Update(m, key) IN
                /\ ~r.panicked
                /\ r.cmd = "nil"
                /\ r.model.runParams = m.runParams
                /\ r.model.selectedParameter = m.selectedParameter
          /\ ~Update(m, "esc").model.editingParameter

\* an edit was begun, its buffer changed, and the edit cancelled
C3_Witness ==
    /\ Running
    /\ last = [msg |-> "esc", editing |-> TRUE]
    /\ ~m.editingParameter
    /\ typed = 2
    /\ m.runParams = initialModel(m.imageName).runParams

\* C4: the commit block runs exactly once when the loop ends with err unset,
\* and writes nothing when an errMsg was delivered or tui.Run() failed
C4_CommitOnlyOnCleanExit ==
    LET untouched == InitialOptions(opts.copts.Image) IN
    /\ Running => (committerRuns = 0 /\ opts = untouched)
    /\ (pc = "done" /\ result = NoErr) =>
          /\ last.msg # "errMsg"
          /\ m.err = NoErr
          /\ committerRuns = 1
          /\ opts = ApplyFlags(ApplyParams(untouched, m.runParams), m.runFlags)
    /\ (pc = "done" /\ result # NoErr) =>
          /\ committerRuns = 0
          /\ opts = untouched
    /\ (pc = "done" /\ last.msg = "errMsg") => result = "errMsg"

\* a value was edited and confirmed, then an errMsg ended the session
C4_Witness ==
    /\ pc = "done"
    /\ last.msg = "errMsg"
    /\ m.runParams # initialModel(m.imageName).runParams
    /\ opts = InitialOptions(opts.copts.Image)

\* C5 as stated: once the caller's context is cancelled during the session,
\* the session ends without the commit block and returns an error
C5_CancelStopsSession ==
    (pc = "done" /\ ctxCancelled) => (committerRuns = 0 /\ result # NoErr)

\* C5 amended: cancelling the caller's context never ends the session (the
\* program runs under context.WithoutCancel), so tui.Run() is never killed by
\* it, and the session ends without error only by a quit key, with the commit
C5_CancelIsDetached ==
    /\ result # "ErrProgramKilled"
    /\ (pc = "done" /\ ctxCancelled /\ result = NoErr) =>
          /\ last.msg \in {"enter", "esc", "ctrl+c"}
          /\ committerRuns = 1
          /\ opts = ApplyFlags(ApplyParams(InitialOptions(opts.copts.Image), m.runParams),
                               m.runFlags)

\* the context was cancelled, the user went on editing and left with enter
C5_Witness ==
    /\ pc = "done"
    /\ ctxCancelled
    /\ last.msg = "enter"
    /\ result = NoErr
    /\ committerRuns = 1
    /\ opts.ropts.name = <<"a">>

\* C6: every key event is a total transition, also with the empty parameter
\* list of an unknown image: no index out of range, selected never negative
C6_KeysAreTotal ==
    /\ result # "panic"
    /\ m.selectedParameter >= 0

\* C7: in Browsing with n > 0 parameters a previous key selects n-1 from 0 and
\* selected-1 otherwise, a next key selects 0 from n-1 and selected+1
\* otherwise, and neither changes a value or the mode
C7_NavigationWraps ==
    (Running /\ ~m.editingParameter /\ NumParams > 0) =>
       /\ \A key \in PrevKeys :
             Update(m, key) =
                Ret([m EXCEPT !.selectedParameter =
                        IF m.selectedParameter = 0 THEN NumParams - 1
                        ELSE m.selectedParameter - 1], "nil")
       /\ \A key \in NextKeys :
             Update(m, key) =
                Ret([m EXCEPT !.selectedParameter =
                        IF m.selectedParameter = NumParams - 1 THEN 0
                        ELSE m.selectedParameter + 1], "nil")

\* a previous key pressed in Browsing left the last parameter selected: from
\* index 0 (no other index has the last one as its predecessor)
C7_Witness ==
    /\ Running
    /\ last = [msg |-> "shift+tab", editing |-> FALSE]
    /\ NumParams > 1
    /\ m.selectedParameter = NumParams - 1

\* C8: tab in Editing commits the same value as enter, then selects the next
\* parameter (the first after the last); enter leaves the selection; both
\* return to Browsing
C8_TabCommitsAndAdvances ==
    (Running /\ m.editingParameter) =>
       LET e == Update(m, "enter")
           t == Update(m, "tab")
       IN  /\ ~e.panicked /\ ~t.panicked
           /\ t.model.runParams = e.model.runParams
           /\ e.model.selectedParameter = m.selectedParameter
           /\ t.model.selectedParameter = (m.selectedParameter + 1) % NumParams
           /\ ~e.model.editingParameter
           /\ ~t.model.editingParameter
           /\ t.model = [e.model EXCEPT !.selectedParameter = t.model.selectedParameter]

\* tab confirmed an edit of the last parameter and the selection wrapped to 0
C8_Witness ==
    /\ Running
    /\ last = [msg |-> "tab", editing |-> TRUE]
    /\ NumParams > 1
    /\ m.selectedParameter = 0
    /\ ~m.editingParameter
    /\ m.runParams[NumParams].value # m.runParams[NumParams].valueOptions[1]

\* C9: a commit whose resulting value is empty stores candidates[0]; an empty
\* buffer confirmed on alpine's --name gives "alpine-test"
C9_EmptyCommitFallsBack ==
    (Running /\ m.editingParameter) =>
       LET sep   == Selected.paramType.splitOn
           raw   == IF IsComposite(Selected)
                    THEN Join(ReplacePart(Split(Selected.value, sep),
                                          Selected.paramType.editableIndex,
                                          m.editValue), sep)
                    ELSE m.editValue
           after == Update(m, "enter").model.runParams[m.selectedParameter + 1].value
       IN  /\ raw = <<>> => after = Selected.valueOptions[1]
           /\ raw # <<>> => after = raw
           /\ (m.imageName = "alpine" /\ m.selectedParameter = 0 /\ m.editValue = <<>>)
                 => after = S_alpine_test

\* enter confirmed an emptied buffer on alpine's --name
C9_Witness ==
    /\ Running
    /\ last = [msg |-> "enter", editing |-> TRUE]
    /\ m.imageName = "alpine"
    /\ m.selectedParameter = 0
    /\ m.runParams[1].value = S_alpine_test

\* C10: a parameter is flagged as edited, and drawn as modified when it is
\* not the selected one, exactly when its value is non-empty and differs from
\* candidates[0]
C10_EditedFlag ==
    \A i \in 1..NumParams :
       LET param  == m.runParams[i]
           differs == param.value # <<>> /\ param.value # param.valueOptions[1]
       IN  /\ isEdited(param) <=> differs
           /\ param.value = param.valueOptions[1] => ~isEdited(param)
           /\ (ParamTreatment(m, i - 1) = "modified") <=>
                 (i - 1 # m.selectedParameter /\ differs)
           /\ (ParamTreatment(m, i - 1) = "plain") <=>
                 (i - 1 # m.selectedParameter /\ ~differs)

\* an unselected parameter with a committed value other than its default
C10_Witness ==
    /\ Running
    /\ \E i \in 1..NumParams :
          /\ i - 1 # m.selectedParameter
          /\ m.runParams[i].value # m.runParams[i].valueOptions[1]
          /\ ParamTreatment(m, i - 1) = "modified"

\* byte i of s belongs to a styling escape sequence: an ESC at most six bytes
\* before it (the longest sequence has seven bytes) is not yet closed by "m"
InEscape(s, i) ==
    \E j \in (IF i > 6 THEN i - 6 ELSE 1)..i :
       /\ s[j] = ESC
       /\ \A k \in (j + 1)..(i - 1) : s[k] # "m"

\* display columns of a rendered text: the bytes outside styling escape sequences
Columns(s) == Cardinality({i \in 1..Len(s) : ~InEscape(s, i)})

\* C11: the rendered command is joined with the line-continuation separator
\* exactly when the single-space-joined command exceeds 80 display columns,
\* styling escape sequences counting for nothing; below 80 columns it is one line
C11_WrapsOnDisplayColumns ==
    Running =>
       LET single  == Join(CommandParts(m), <<" ">>)
           wrapped == Join(CommandParts(m), ContinuationSeparator)
           columns == Columns(single)
       IN  /\ (ViewCommand(m) = wrapped) <=> (columns > 80)
           /\ columns < 80 => ViewCommand(m) = single

\* the values of the parameters of one type, in list order
ValuesOf(params, ptype) ==
    LET OfType(p) == p.paramType = ptype
        chosen    == SelectSeq(params, OfType)
    IN  [i \in 1..Len(chosen) |-> chosen[i].value]

\* the flag is in the model's flag list
HasFlag(flag) == \E i \in 1..Len(m.runFlags) : m.runFlags[i] = flag

C13_NoSessionInBrowsing ==
    ~m.editingParameter =>
       /\ m.editValue = <<>>
       /\ m.cursorPosition = 0
       /\ m.parameterParts = NilParts

\* C14: in every Editing state the segments are present exactly when the
\* selected parameter's type has a separator; present, they are the value at
\* edit entry split on it; absent, View draws no prefix or suffix
C14_SegmentsMatchType ==
    (Running /\ m.editingParameter) =>
       /\ (m.parameterParts # NilParts) <=> IsComposite(Selected)
       /\ IsComposite(Selected) =>
             m.parameterParts = Split(Selected.value, Selected.paramType.splitOn)
       /\ ~IsComposite(Selected) =>
             EditingString(m, Selected)
                = EditingString([m EXCEPT !.parameterParts = NilParts], Selected)

\* C15: whatever is typed and however many edits are made, a composite value
\* keeps its number of segments, and every segment but the editable one keeps
\* its initial content
C15_OnlyEditableSegmentChanges ==
    \A i \in 1..NumParams :
       IsComposite(m.runParams[i]) =>
          LET sep   == m.runParams[i].paramType.splitOn
              k     == m.runParams[i].paramType.editableIndex
              first == Split(initialModel(m.imageName).runParams[i].value, sep)
              now   == Split(m.runParams[i].value, sep)
          IN  /\ Len(now) = Len(first)
              /\ \A j \in 1..Len(first) : j # k + 1 => now[j] = first[j]

\* C16: in Browsing an alphanumeric key c enters Editing with the buffer equal
\* to c and the cursor at 1, and changes no value and no selection; any other
\* one-character key changes nothing
C16_BeginEditStartsFromKey ==
    (Running /\ ~m.editingParameter) =>
       \A key \in Chars :
          LET u == Update(m, key) IN
          IF IsAlnum(key)
          THEN /\ ~u.panicked
               /\ u.cmd = "nil"
               /\ u.model.editingParameter
               /\ u.model.editValue = <<key>>
               /\ u.model.cursorPosition = 1
               /\ u.model.runParams = m.runParams
               /\ u.model.selectedParameter = m.selectedParameter
          ELSE u = Ret(m, "nil")

\* buf with c put in front of the character at 0-based position p
InsertAt(buf, p, c) ==
    [i \in 1..(Len(buf) + 1) |->
        IF i <= p THEN buf[i] ELSE IF i = p + 1 THEN c ELSE buf[i - 1]]

\* buf without the character in front of 0-based position p (p > 0)
RemoveBefore(buf, p) ==
    [i \in 1..(Len(buf) - 1) |-> IF i < p THEN buf[i] ELSE buf[i + 1]]

\* C17: in Editing with the cursor at p, a one-character key c gives the buffer
\* buffer[:p] + c + buffer[p:] and the cursor p+1; backspace with p > 0 gives
\* buffer[:p-1] + buffer[p:] and p-1, and changes nothing with p = 0; left and
\* right move only the cursor, by one, and stay inside [0, len(buffer)]
C17_BufferEditing ==
    (Running /\ m.editingParameter) =>
       LET p == m.cursorPosition
           n == Len(m.editValue)
       IN  /\ \A c \in Chars :
                 Update(m, c) = Ret([m EXCEPT !.editValue = InsertAt(m.editValue, p, c),
                                              !.cursorPosition = p + 1], "nil")
           /\ Update(m, "backspace") =
                 IF p > 0
                 THEN Ret([m EXCEPT !.editValue = RemoveBefore(m.editValue, p),
                                    !.cursorPosition = p - 1], "nil")
                 ELSE Ret(m, "nil")
           /\ Update(m, "left") =
                 Ret([m EXCEPT !.cursorPosition = IF p = 0 THEN 0 ELSE p - 1], "nil")
           /\ Update(m, "right") =
                 Ret([m EXCEPT !.cursorPosition = IF p = n THEN n ELSE p + 1], "nil")

\* a character was typed in Editing in front of another one: the cursor is
\* inside the buffer after the insertion
C17_Witness ==
    /\ Running
    /\ m.editingParameter
    /\ last.msg \in Chars
    /\ last.editing
    /\ Len(m.editValue) = 2
    /\ m.cursorPosition = 1
    /\ m.editValue[1] # m.editValue[2]

\* C18: the caller's run options, container options and flag set change only
\* in the step that ends the event loop with the commit block; a message that
\* Update handles while the loop goes on, in either mode, leaves them alone
C18_OnlyCommitterWrites ==
    [][/\ pc' = "loop" => opts' = opts
       /\ opts' # opts => /\ pc = "loop"
                          /\ pc' = "done"
                          /\ committerRuns' = committerRuns + 1
                          /\ opts' = CommitModel(opts, m')]_vars

\* keys were handled in both modes, a value changed, and the commit block then
\* wrote the caller's structures
C18_Witness ==
    /\ pc = "done"
    /\ committerRuns = 1
    /\ typed = 2
    /\ m.runParams # initialModel(m.imageName).runParams
    /\ opts # InitialOptions(m.imageName)

\* no message has been handed to Update yet: m is what initialModel built
Constructed == Running /\ last.msg = "none"

\* a message that Update handles changes the value of a parameter only if it
\* is a Confirm (enter or tab in Editing) and the parameter is the selected one
ValuesChangeOnlyByConfirm ==
    Running =>
       \A msg \in Keys \cup {"errMsg"} :
          LET u == Update(m, msg) IN
          ~u.panicked =>
             /\ Len(u.model.runParams) = NumParams
             /\ \A i \in 1..NumParams :
                   u.model.runParams[i].value # m.runParams[i].value =>
                      /\ m.editingParameter
                      /\ msg \in {"enter", "tab"}
                      /\ i = m.selectedParameter + 1

\* C19 as stated: in the model that initialModel builds every value is empty,
\* and a value stays as built until a Confirm commits that parameter
C19_ValuesStartEmpty ==
    /\ Constructed => \A i \in 1..NumParams : m.runParams[i].value = <<>>
    /\ ValuesChangeOnlyByConfirm

\* C19 amended: in the model that initialModel builds every value is the
\* parameter's first candidate, valueOptions[0], not the empty string, and a
\* value stays as built until a Confirm commits that parameter
C19_ValuesStartAtFirstOption ==
    /\ Constructed =>
          \A i \in 1..NumParams :
             /\ Len(m.runParams[i].valueOptions) > 0
             /\ m.runParams[i].value = m.runParams[i].valueOptions[1]
             /\ m.runParams[i].value # <<>>
    /\ ValuesChangeOnlyByConfirm

\* a Confirm with tab committed one parameter; every other parameter still
\* holds the first candidate it was built with
C19_Witness ==
    /\ Running
    /\ last = [msg |-> "tab", editing |-> TRUE]
    /\ NumParams > 1
    /\ \E i \in 1..NumParams :
          /\ m.runParams[i].value # m.runParams[i].valueOptions[1]
          /\ \A j \in (1..NumParams) \ {i} :
                m.runParams[j].value = m.runParams[j].valueOptions[1]

\* C20: no key handled in Editing ends the session, ctrl+c and esc included;
\* so a key ends it only from Browsing, where the buffer is empty and the
\* model is returned as it is, and when the commit block has run the final
\* model is in Browsing with an empty buffer and the caller's structures hold
\* the parameters' values, never the text of an edit in progress
C20_NoExitWhileEditing ==
    /\ (Running /\ m.editingParameter) =>
          \A key \in Keys :
             /\ ~Update(m, key).panicked
             /\ Update(m, key).cmd # "quit"
    /\ (Running /\ ~m.editingParameter) =>
          \A key \in Keys :
             Update(m, key).cmd = "quit" =>
                (Update(m, key).model = m /\ m.editValue = <<>>)
    /\ committerRuns > 0 =>
          /\ pc = "done"
          /\ ~last.editing
          /\ ~m.editingParameter
          /\ m.editValue = <<>>
          /\ opts = ApplyFlags(ApplyParams(InitialOptions(m.imageName), m.runParams),
                               m.runFlags)

\* ctrl+c was pressed during an edit: the session goes on, still in Editing,
\* with the typed text in the buffer
C20_Witness ==
    /\ Running
    /\ last = [msg |-> "ctrl+c", editing |-> TRUE]
    /\ m.editingParameter
    /\ Len(m.editValue) = 2

\* C21: with a non-empty parameter list, 0 <= selectedParameter < len(runParams)
\* in every reachable state, and every key keeps it so; the index arithmetic of
\* navigation and tab stays in range for every list length from 1 up
C21_SelectedInRange ==
    /\ NumParams > 0 => InRange(m.selectedParameter, NumParams)
    /\ (Running /\ NumParams > 0) =>
          \A key \in Keys :
             LET u == Update(m, key) IN
             /\ ~u.panicked
             /\ Len(u.model.runParams) = NumParams
             /\ InRange(u.model.selectedParameter, NumParams)
    /\ \A n \in 1..NumParams :
          \A sel \in 0..(n - 1) :
             /\ InRange(NextIndex(sel, n), n)
             /\ InRange(PrevIndex(sel, n), n)

\* after an edit, a previous key pressed on the first parameter selected the
\* last one
C21_Witness ==
    /\ Running
    /\ last = [msg |-> "left", editing |-> FALSE]
    /\ typed = 2
    /\ NumParams > 1
    /\ m.selectedParameter = NumParams - 1

\* every parameter of the catalog has a non-empty first candidate
FirstCandidatesNonEmpty ==
    \A image \in Images :
       \A i \in 1..Len(getParamOptions(image)) :
          /\ Len(getParamOptions(image)[i].valueOptions) > 0
          /\ getParamOptions(image)[i].valueOptions[1] # <<>>

\* C22: with a non-empty first candidate for every parameter, no parameter's
\* value is ever empty, no key makes one empty, and what the commit block
\* hands to the name, entrypoint, volume, env and publish setters is non-empty
C22_ValuesNeverEmpty ==
    FirstCandidatesNonEmpty =>
       /\ \A i \in 1..NumParams : m.runParams[i].value # <<>>
       /\ Running =>
             \A key \in Keys :
                LET u == Update(m, key) IN
                ~u.panicked =>
                   \A i \in 1..Len(u.model.runParams) :
                      u.model.runParams[i].value # <<>>
       /\ committerRuns > 0 =>
             /\ Len(ValuesOf(m.runParams, nameParam)) > 0 => opts.ropts.name # <<>>
             /\ Len(ValuesOf(m.runParams, entrypointParam)) > 0 =>
                   opts.copts.entrypoint # <<>>
             /\ \A j \in 1..Len(opts.copts.volumes) : opts.copts.volumes[j] # <<>>
             /\ \A j \in 1..Len(opts.copts.env) : opts.copts.env[j] # <<>>
             /\ \A j \in 1..Len(opts.copts.publish) : opts.copts.publish[j] # <<>>

\* a composite value whose editable segment was confirmed empty was handed to
\* the publish setter: the value itself is not empty
C22_Witness ==
    /\ FirstCandidatesNonEmpty
    /\ pc = "done"
    /\ committerRuns = 1
    /\ \E i \in 1..NumParams :
          /\ IsComposite(m.runParams[i])
          /\ m.runParams[i].paramType = portParam
          /\ Split(m.runParams[i].value, m.runParams[i].paramType.splitOn)
                [m.runParams[i].paramType.editableIndex + 1] = <<>>
          /\ \E j \in 1..Len(opts.copts.publish) :
                opts.copts.publish[j] = m.runParams[i].value

\* the values of the attributes of that key, in the returned list
AttrValues(attrs, key) == {attrs[i].value : i \in {j \in 1..Len(attrs) : attrs[j].key = key}}

\* C23: both attribute functions report exactly one status code; it is 0 if
\* and only if the error is nil; for a non-nil error it is the StatusCode of a
\* statusError when that is non-zero and 1 otherwise; and there is an
\* error-type attribute exactly when the error is non-nil
C23_StatusCodeAndErrorType ==
    telCall # "none" =>
       LET codes == AttrValues(telAttrs, telCall \o ".status.code")
           types == AttrValues(telAttrs, telCall \o ".error.type")
           isNil == telErr = NilError
       IN  /\ Cardinality(codes) = 1
           /\ (codes = {0}) <=> isNil
           /\ ~isNil =>
                 codes = {IF telErr.type = "statusError" /\ telErr.StatusCode # 0
                          THEN telErr.StatusCode ELSE 1}
           /\ (types # {}) <=> ~isNil
           /\ Len(telAttrs) = IF isNil THEN 1 ELSE 2

\* a statusError with code 125 went through attributesFromCommandError
C23_Witness ==
    /\ telCall = "command"
    /\ telErr.type = "statusError"
    /\ telErr.StatusCode = 125
    /\ AttrValues(telAttrs, "command.status.code") = {125}
    /\ AttrValues(telAttrs, "command.error.type") = {"generic"}

====
